---- MODULE Spec2Model ----
(***************************************************************************)
(* Model of custom_modules/plot_funs.py: the cluster-count selection of    *)
(* plot_best_k (its nested plot_subplot and the imported find_elbow), and  *)
(* the rewrite guard of the four time-series plotting functions.           *)
(*                                                                         *)
(* Python list indexes are 0-based; a TLA+ sequence holding a Python list  *)
(* keeps element i of the list at position i + 1.                          *)
(***************************************************************************)
EXTENDS Integers, Sequences, FiniteSets

(* ------------------------------ bounds -------------------------------- *)
\* Most rows of an evaluation table, and most elements of a score list.
MaxRows == 3
\* Candidate cluster counts are drawn from 1..MaxK.
MaxK == 4
\* Metric scores are drawn from 0..MaxScore.
MaxScore == 2
\* Most elements of the lists agg and with_shadow_missing.
MaxLoop == 2

VARIABLES
  \* ---- the call and its environment ----
  fn,                 \* the function that was called
  save_path_exists,   \* whether the directory save_path exists
  files,              \* the files written under save_path by the call
  err,                \* the exception that left the call, or "none"
  pc,                 \* position in the called function
  \* ---- plot_best_k ----
  df_scores,          \* the caller's table: a sequence of rows (mutable object)
  df_passed,          \* history: the table as it was when the call was made
  object_cols,        \* metric columns of dtype object holding a non-numeric cell
  min_x, max_x,       \* locals (lines 193, 194): <<v>>, or <<>> for nan / unassigned
  ss_scores, distortions, db_scores, ch_scores,   \* locals (lines 197-200)
  optimal_k_index,    \* per axes selected on: the local of plot_subplot's frame
  axes,               \* per axes drawn on: what has been drawn on it
  \* ---- the per-metric selection as a function of its arguments ----
  arg_scores, arg_higher, arg_elbow,
  ret,                \* <<>> before the return, <<result>> after it
  \* ---- the four time-series plotting functions ----
  rewrite,            \* argument rewrite
  agg, with_shadow_missing,      \* arguments of plot_time_series_data_sensor
  columns_datetime,   \* df.columns is a DatetimeIndex
  start_year, aggregate_by_month,   \* arguments of plot_time_series_data_iterative
  ai, si,             \* iterations completed of the loops of lines 94 and 100
  rows_bound,         \* the locals num_sensors, cols and rows are bound
  final_path,         \* the local final_path, or None while unbound
  plotted,            \* a plotting step has been performed
  printed             \* the messages printed, in order

env_vars == <<fn, save_path_exists, files, err, pc>>
bestk_vars == <<df_scores, df_passed, object_cols, min_x, max_x,
                ss_scores, distortions, db_scores, ch_scores, optimal_k_index, axes>>
select_vars == <<arg_scores, arg_higher, arg_elbow, ret>>
plot_vars == <<rewrite, agg, with_shadow_missing, columns_datetime, start_year,
               aggregate_by_month, ai, si, rows_bound, final_path, plotted, printed>>
vars == <<env_vars, bestk_vars, select_vars, plot_vars>>

(* ------------------------------ values -------------------------------- *)
None == "None"
\* nan, and a local not yet assigned
NaN == <<>>
Metrics == {"Silhouette_Score", "Distortion", "Davies_Bouldin", "Calinski_Harabasz"}
Axes == {"ax1", "ax2", "ax3", "ax4"}

Range(s) == {s[i] : i \in 1..Len(s)}
SeqsUpTo(S, n) == UNION {[1..m -> S] : m \in 0..n}

\* One record of the table.
Row(k, ss, d, db, ch) ==
  [Number_of_Clusters |-> k, Silhouette_Score |-> ss, Distortion |-> d,
   Davies_Bouldin |-> db, Calinski_Harabasz |-> ch]

\* df[col].values.tolist()
Column(df, col) == [i \in 1..Len(df) |-> df[i][col]]

(* ------------------------ Python and numpy helpers -------------------- *)
\* max(scores), min(scores) of a non-empty list of numbers
PyMax(scores) == CHOOSE v \in Range(scores) : \A w \in Range(scores) : v >= w
PyMin(scores) == CHOOSE v \in Range(scores) : \A w \in Range(scores) : v =< w

\* Mutant of ListIndex: the position of the last element equal to v.
ListIndex_last(scores, v) ==
  (CHOOSE i \in 1..Len(scores) :
      scores[i] = v /\ \A j \in (i + 1)..Len(scores) : scores[j] # v) - 1

\* scores.index(v): the 0-based position of the first element equal to v
ListIndex(scores, v) ==
  (CHOOSE i \in 1..Len(scores) :
      scores[i] = v /\ \A j \in 1..(i - 1) : scores[j] # v) - 1

\* np.min / np.max of a column: nan on a column of no rows
NpMin(col) == IF Len(col) = 0 THEN NaN ELSE <<PyMin(col)>>
NpMax(col) == IF Len(col) = 0 THEN NaN ELSE <<PyMax(col)>>

\* len(range(lo, hi + 1)) and its elements
RangeLen(lo, hi) == IF hi >= lo THEN hi - lo + 1 ELSE 0
PyRange(lo, hi) == [i \in 1..RangeLen(lo, hi) |-> lo + i - 1]

\* df.sort_values(by='Number_of_Clusters'): the default sort kind is not
\* stable, so every ordering of the rows that is non-decreasing in k is a
\* possible outcome.
Permutations(n) == {p \in [1..n -> 1..n] : \A i, j \in 1..n : i # j => p[i] # p[j]}
IsSortedByK(df) ==
  \A i \in 1..(Len(df) - 1) : df[i].Number_of_Clusters =< df[i + 1].Number_of_Clusters
SortValues(df) ==
  {s \in {[i \in 1..Len(df) |-> df[p[i]]] : p \in Permutations(Len(df))} : IsSortedByK(s)}

(* ------------------------------ selection ----------------------------- *)
Ok(i) == [error |-> "none", index |-> i]
\* a call that raises returns no index: the field holds -1
Raise(e) == [error |-> e, index |-> -1]

Abs(x) == IF x < 0 THEN 0 - x ELSE x

\* The perpendicular distance of point (i, scores[i]) (0-based i) to the line
\* through the first and the last point, times the length of that segment:
\* the common positive factor does not change which point is farthest.
ElbowDistance(scores, i) ==
  LET n == Len(scores)
      dx == n - 1
      dy == scores[n] - scores[1]
  IN  Abs(dy * i - dx * (scores[i + 1] - scores[1]))

\* find_elbow of modelling_funs: the interior point farthest from the line
\* through the end points, the first such point on a tie.
find_elbow(scores) ==
  IF Len(scores) < 3 THEN Raise("InsufficientDataError")
  ELSE LET interior == 1..(Len(scores) - 2)
       IN  Ok(CHOOSE i \in interior :
                /\ \A j \in interior : ElbowDistance(scores, i) >= ElbowDistance(scores, j)
                /\ \A j \in interior : j < i => ElbowDistance(scores, j) < ElbowDistance(scores, i))

\* Mutant of SelectByExtremum: an empty list selects index 0 instead of raising.
SelectByExtremum_default(scores, is_higher_better) ==
  IF Len(scores) = 0 THEN Ok(0)
  ELSE IF is_higher_better THEN Ok(ListIndex(scores, PyMax(scores)))
  ELSE Ok(ListIndex(scores, PyMin(scores)))

\* scores.index(max(scores)) if is_higher_better else scores.index(min(scores));
\* max and min of an empty list raise ValueError.
SelectByExtremum(scores, is_higher_better) ==
  IF Len(scores) = 0 THEN Raise("ValueError")
  ELSE IF is_higher_better THEN Ok(ListIndex(scores, PyMax(scores)))
  ELSE Ok(ListIndex(scores, PyMin(scores)))

\* Mutant of OptimalKIndex: is_elbow is ignored.
OptimalKIndex_extremum(scores, is_higher_better, is_elbow) ==
  SelectByExtremum(scores, is_higher_better)

\* plot_subplot, lines 205-208
OptimalKIndex(scores, is_higher_better, is_elbow) ==
  IF is_elbow THEN find_elbow(scores)
  ELSE SelectByExtremum(scores, is_higher_better)

(* ------------------------------ inputs -------------------------------- *)
Scores == 0..MaxScore

\* A table with the k column kc whose scores tell the rows apart: row i of the
\* table as passed holds i, (n - i)^2, n - i and 2i.
RampTable(kc) ==
  LET n == Len(kc)
  IN  [i \in 1..n |-> Row(kc[i], i, (n - i) * (n - i), n - i, 2 * i)]

\* A table with k = 1..n in order; silhouette and davies_bouldin hold column
\* a, distortion and calinski_harabasz hold column b.
ScoreTable(a, b) == [i \in 1..Len(a) |-> Row(i, a[i], b[i], a[i], b[i])]

NoCall == <<>>

BestKIdle ==
  /\ df_scores = <<>>
  /\ df_passed = <<>>
  /\ object_cols = {}
  /\ min_x = NaN
  /\ max_x = NaN
  /\ ss_scores = <<>>
  /\ distortions = <<>>
  /\ db_scores = <<>>
  /\ ch_scores = <<>>
  /\ optimal_k_index = NoCall
  /\ axes = NoCall

SelectIdle ==
  /\ arg_scores = <<>>
  /\ arg_higher = TRUE
  /\ arg_elbow = FALSE
  /\ ret = <<>>

\* The defaults of lines 76 and 77.
DefaultAgg == <<"raw", "monthly">>
DefaultShadow == <<FALSE, TRUE>>

PlotIdle ==
  /\ rewrite = TRUE
  /\ agg = DefaultAgg
  /\ with_shadow_missing = DefaultShadow
  /\ columns_datetime = FALSE
  /\ start_year = None
  /\ aggregate_by_month = FALSE
  /\ ai = 0
  /\ si = 0
  /\ rows_bound = FALSE
  /\ final_path = None
  /\ plotted = FALSE
  /\ printed = <<>>

Init ==
  /\ fn = "plot_best_k"
  /\ save_path_exists \in BOOLEAN
  /\ files = {}
  /\ err = "none"
  /\ pc = "entry"
  \* The calls explored: any k column (unordered, with duplicates, with gaps)
  \* over ramp scores, with any set of non-numeric extremum columns; and every
  \* pair of score columns over k = 1..n.
  /\ \/ \E kc \in SeqsUpTo(1..MaxK, MaxRows) :
          /\ df_scores = RampTable(kc)
          /\ object_cols \in SUBSET (Metrics \ {"Distortion"})
     \/ \E n \in 0..MaxRows :
          \E a \in [1..n -> Scores], b \in [1..n -> Scores] :
             /\ df_scores = ScoreTable(a, b)
             /\ object_cols = {}
  /\ df_passed = df_scores
  /\ min_x = NaN
  /\ max_x = NaN
  /\ ss_scores = <<>>
  /\ distortions = <<>>
  /\ db_scores = <<>>
  /\ ch_scores = <<>>
  /\ optimal_k_index = NoCall
  /\ axes = NoCall
  /\ SelectIdle
  /\ PlotIdle

(* ----------------------------- plot_best_k ---------------------------- *)
\* Lines 193-202: the k range, the in-place sort, the four score lists.
Prologue ==
  /\ fn = "plot_best_k"
  /\ pc = "entry"
  /\ min_x' = NpMin(Column(df_scores, "Number_of_Clusters"))
  /\ max_x' = NpMax(Column(df_scores, "Number_of_Clusters"))
  /\ df_scores' \in SortValues(df_scores)
  /\ ss_scores' = Column(df_scores', "Silhouette_Score")
  /\ distortions' = Column(df_scores', "Distortion")
  /\ db_scores' = Column(df_scores', "Davies_Bouldin")
  /\ ch_scores' = Column(df_scores', "Calinski_Harabasz")
  /\ pc' = "ax1"
  /\ UNCHANGED <<fn, save_path_exists, files, err, df_passed, object_cols,
                 optimal_k_index, axes, select_vars, plot_vars>>

Put(f, a, v) == [x \in (DOMAIN f) \cup {a} |-> IF x = a THEN v ELSE f[x]]

\* Mutant of PlotSubplot: a failed selection or plot is swallowed and the
\* caller goes on to the next call.
PlotSubplot_swallow(at, ax, scores, col, is_higher_better, is_elbow, next) ==
  /\ fn = "plot_best_k"
  /\ pc = at
  /\ LET sel == IF col \in object_cols
                THEN Raise("TypeError")
                ELSE OptimalKIndex(scores, is_higher_better, is_elbow)
     IN  IF sel.error # "none" \/ min_x = NaN \/ max_x = NaN
         THEN UNCHANGED <<optimal_k_index, axes>>
         ELSE /\ optimal_k_index' = Put(optimal_k_index, ax, sel.index)
              /\ IF RangeLen(min_x[1], max_x[1]) # Len(scores)
                 THEN UNCHANGED axes
                 ELSE axes' = Put(axes, ax,
                         [line_x |-> PyRange(min_x[1], max_x[1]),
                          line_y |-> scores,
                          marker |-> IF is_higher_better THEN "*" ELSE "o",
                          vline |-> df_scores[sel.index + 1].Number_of_Clusters,
                          annotation |-> <<df_scores[sel.index + 1].Number_of_Clusters,
                                           scores[sel.index + 1]>>])
  /\ pc' = next
  /\ UNCHANGED <<fn, save_path_exists, files, err, df_scores, df_passed, object_cols,
                 min_x, max_x, ss_scores, distortions, db_scores, ch_scores,
                 select_vars, plot_vars>>

\* One call of plot_subplot (lines 204-222) on the axes ax with the list
\* scores taken from column col; the call is made at position at and is
\* followed by position next.
PlotSubplot(at, ax, scores, col, is_higher_better, is_elbow, next) ==
  /\ fn = "plot_best_k"
  /\ pc = at
  /\ LET sel == IF col \in object_cols
                THEN Raise("TypeError")  \* max / min of str and float
                ELSE OptimalKIndex(scores, is_higher_better, is_elbow)
     IN  IF sel.error # "none"
         THEN /\ err' = sel.error
              /\ pc' = "raised"
              /\ UNCHANGED <<optimal_k_index, axes>>
         ELSE LET optimal_k == df_scores[sel.index + 1].Number_of_Clusters
                  score == scores[sel.index + 1]
              IN  /\ optimal_k_index' = Put(optimal_k_index, ax, sel.index)
                  /\ IF min_x = NaN \/ max_x = NaN
                     THEN \* range(nan, nan + 1)
                          /\ err' = "TypeError"
                          /\ pc' = "raised"
                          /\ UNCHANGED axes
                     ELSE IF RangeLen(min_x[1], max_x[1]) # Len(scores)
                     THEN \* ax.plot: x and y must have the same first dimension
                          /\ err' = "ValueError"
                          /\ pc' = "raised"
                          /\ UNCHANGED axes
                     ELSE /\ axes' = Put(axes, ax,
                                 [line_x |-> PyRange(min_x[1], max_x[1]),
                                  line_y |-> scores,
                                  marker |-> IF is_higher_better THEN "*" ELSE "o",
                                  vline |-> optimal_k,
                                  annotation |-> <<optimal_k, score>>])
                          /\ pc' = next
                          /\ UNCHANGED err
  /\ UNCHANGED <<fn, save_path_exists, files, df_scores, df_passed, object_cols,
                 min_x, max_x, ss_scores, distortions, db_scores, ch_scores,
                 select_vars, plot_vars>>

\* Lines 225-238: the four calls, in order.
PlotSilhouette ==
  PlotSubplot("ax1", "ax1", ss_scores, "Silhouette_Score", TRUE, FALSE, "ax2")
PlotDistortion ==
  PlotSubplot("ax2", "ax2", distortions, "Distortion", FALSE, TRUE, "ax3")
\* Mutant of PlotDaviesBouldin: is_higher_better left at its default.
PlotDaviesBouldin_default ==
  PlotSubplot("ax3", "ax3", db_scores, "Davies_Bouldin", TRUE, FALSE, "ax4")
PlotDaviesBouldin ==
  PlotSubplot("ax3", "ax3", db_scores, "Davies_Bouldin", FALSE, FALSE, "ax4")
PlotCalinskiHarabasz ==
  PlotSubplot("ax4", "ax4", ch_scores, "Calinski_Harabasz", TRUE, FALSE, "savefig")

\* Lines 240-243: the image is written into save_path, then shown.
SaveFig ==
  /\ fn = "plot_best_k"
  /\ pc = "savefig"
  /\ IF save_path_exists
     THEN /\ files' = files \cup {"evaluation_metrics_plot.png"}
          /\ pc' = "done"
          /\ UNCHANGED err
     ELSE /\ err' = "FileNotFoundError"
          /\ pc' = "raised"
          /\ UNCHANGED files
  /\ UNCHANGED <<fn, save_path_exists, bestk_vars, select_vars, plot_vars>>

Next ==
  \/ Prologue
  \/ PlotSilhouette
  \/ PlotDistortion
  \/ PlotDaviesBouldin
  \/ PlotCalinskiHarabasz
  \/ SaveFig

Spec == Init /\ [][Next]_vars

(* ------------------- the selection as a pure function ----------------- *)
\* The score lists named in the description of the selection rules.
ExampleScores == {<<3, 5, 5, 2>>, <<10, 8, 6, 4, 2>>, <<10, 9, 8, 2, 1>>}

InitSelect ==
  /\ fn = "plot_subplot"
  /\ save_path_exists = TRUE
  /\ files = {}
  /\ err = "none"
  /\ pc = "entry"
  /\ BestKIdle
  /\ arg_scores \in SeqsUpTo(Scores, MaxRows) \cup ExampleScores
  /\ arg_higher \in BOOLEAN
  /\ arg_elbow \in BOOLEAN
  /\ ret = <<>>
  /\ PlotIdle

\* Lines 205-208 applied to the arguments.
Select ==
  /\ fn = "plot_subplot"
  /\ pc = "entry"
  /\ LET sel == OptimalKIndex(arg_scores, arg_higher, arg_elbow)
     IN  /\ ret' = <<sel>>
         /\ err' = sel.error
         /\ pc' = IF sel.error = "none" THEN "done" ELSE "raised"
  /\ UNCHANGED <<fn, save_path_exists, files, bestk_vars,
                 arg_scores, arg_higher, arg_elbow, plot_vars>>

NextSelect == Select

SpecSelect == InitSelect /\ [][NextSelect]_vars

(* --------------- the rewrite guard of the plotting functions ---------- *)
PlotFns == {"plot_missing_rate", "plot_time_series_data",
            "plot_time_series_data_sensor", "plot_time_series_data_iterative"}

InitPlot ==
  /\ fn \in PlotFns
  /\ save_path_exists \in BOOLEAN
  /\ files = {}
  /\ err = "none"
  /\ pc = "entry"
  /\ BestKIdle
  /\ SelectIdle
  /\ rewrite \in BOOLEAN
  /\ IF fn = "plot_time_series_data_sensor"
     THEN /\ agg \in SeqsUpTo({"raw", "monthly"}, MaxLoop)
          /\ with_shadow_missing \in SeqsUpTo(BOOLEAN, MaxLoop)
          /\ columns_datetime \in BOOLEAN
     ELSE /\ agg = DefaultAgg
          /\ with_shadow_missing = DefaultShadow
          /\ columns_datetime = FALSE
  /\ IF fn = "plot_time_series_data_iterative"
     THEN /\ start_year \in {None, "given"}
          /\ aggregate_by_month \in BOOLEAN
     ELSE /\ start_year = None
          /\ aggregate_by_month = FALSE
  /\ ai = 0
  /\ si = 0
  /\ rows_bound = FALSE
  /\ final_path = None
  /\ plotted = FALSE
  /\ printed = <<>>

\* A function of the shape of lines 17-41: under the guard the figure is
\* drawn and written to the file name under save_path (which fails when the
\* directory does not exist), and "updated" is printed since the path tested
\* exists after the write; otherwise the existing path is reported.
GuardedPlot(f, name) ==
  /\ fn = f
  /\ pc = "entry"
  /\ IF rewrite = TRUE \/ ~save_path_exists
     THEN /\ plotted' = TRUE
          /\ IF save_path_exists
             THEN /\ files' = files \cup {name}
                  /\ printed' = Append(printed, "updated")
                  /\ pc' = "done"
                  /\ UNCHANGED err
             ELSE /\ err' = "FileNotFoundError"
                  /\ pc' = "raised"
                  /\ UNCHANGED <<files, printed>>
     ELSE /\ printed' = IF save_path_exists
                        THEN Append(printed, "exists and will not be updated")
                        ELSE printed
          /\ pc' = "done"
          /\ UNCHANGED <<files, err, plotted>>
  /\ UNCHANGED <<fn, save_path_exists, bestk_vars, select_vars, rewrite, agg,
                 with_shadow_missing, columns_datetime, start_year,
                 aggregate_by_month, ai, si, rows_bound, final_path>>

\* Lines 17-41.
PlotMissingRate == GuardedPlot("plot_missing_rate", "missing_values_per_sensor.png")

\* Lines 44-71.
PlotTimeSeriesData == GuardedPlot("plot_time_series_data", "time_series_data.png")

\* Lines 174-180.
SaveName ==
  IF start_year = None THEN "time_series_data.html"
  ELSE IF aggregate_by_month THEN "time_series_data_sensor_monthly.html"
  ELSE "time_series_data_sensor_raw.html"

\* Lines 152-190.
PlotTimeSeriesDataIterative == GuardedPlot("plot_time_series_data_iterative", SaveName)

\* Lines 84-92 of plot_time_series_data_sensor: only this block is under the
\* guard; the loop of line 94 follows it whatever the guard said.
SensorGuard ==
  /\ fn = "plot_time_series_data_sensor"
  /\ pc = "entry"
  /\ IF rewrite = TRUE \/ ~save_path_exists
     THEN /\ columns_datetime' = TRUE
          /\ rows_bound' = TRUE
     ELSE UNCHANGED <<columns_datetime, rows_bound>>
  /\ pc' = "for_agg"
  /\ UNCHANGED <<fn, save_path_exists, files, err, bestk_vars, select_vars, rewrite,
                 agg, with_shadow_missing, start_year, aggregate_by_month, ai, si,
                 final_path, plotted, printed>>

\* Lines 94-98, the head of the loop over agg, and lines 148-150, the else
\* clause of that loop, run when the loop is exhausted.
SensorForAgg ==
  /\ fn = "plot_time_series_data_sensor"
  /\ pc = "for_agg"
  /\ IF ai = Len(agg)
     THEN /\ printed' = IF save_path_exists
                        THEN Append(printed, "exists and will not be updated")
                        ELSE printed
          /\ pc' = "done"
          /\ UNCHANGED <<err, si>>
     ELSE IF agg[ai + 1] = "monthly" /\ ~columns_datetime
     THEN \* resample: only valid with a DatetimeIndex
          /\ err' = "TypeError"
          /\ pc' = "raised"
          /\ UNCHANGED <<printed, si>>
     ELSE /\ si' = 0
          /\ pc' = "for_shade"
          /\ UNCHANGED <<err, printed>>
  /\ UNCHANGED <<fn, save_path_exists, files, bestk_vars, select_vars, rewrite, agg,
                 with_shadow_missing, columns_datetime, start_year,
                 aggregate_by_month, ai, rows_bound, final_path, plotted>>

\* Line 140.
Suffix(aggregation, shade_missing) ==
  IF shade_missing
  THEN (IF aggregation = "raw" THEN "raw_with_shade.png" ELSE "monthly_with_shade.png")
  ELSE (IF aggregation = "raw" THEN "raw_without_shade.png"
        ELSE "monthly_without_shade.png")

\* Lines 100-143, one iteration of the loop over with_shadow_missing, and
\* lines 144-147, which follow that loop.
SensorForShade ==
  /\ fn = "plot_time_series_data_sensor"
  /\ pc = "for_shade"
  /\ IF si = Len(with_shadow_missing)
     THEN IF final_path = None
          THEN /\ err' = "UnboundLocalError"
               /\ pc' = "raised"
               /\ UNCHANGED <<ai, si, printed, plotted, files, final_path>>
          ELSE /\ printed' = Append(printed, "updated")
               /\ ai' = ai + 1
               /\ pc' = "for_agg"
               /\ UNCHANGED <<err, si, plotted, files, final_path>>
     ELSE IF ~rows_bound
     THEN \* plt.subplots(rows, cols, ...)
          /\ err' = "UnboundLocalError"
          /\ pc' = "raised"
          /\ UNCHANGED <<ai, si, printed, plotted, files, final_path>>
     ELSE /\ plotted' = TRUE
          /\ IF save_path_exists
             THEN /\ final_path' = Suffix(agg[ai + 1], with_shadow_missing[si + 1])
                  /\ files' = files \cup {final_path'}
                  /\ si' = si + 1
                  /\ UNCHANGED <<err, pc>>
             ELSE /\ err' = "FileNotFoundError"
                  /\ pc' = "raised"
                  /\ UNCHANGED <<si, files, final_path>>
          /\ UNCHANGED <<ai, printed>>
  /\ UNCHANGED <<fn, save_path_exists, bestk_vars, select_vars, rewrite, agg,
                 with_shadow_missing, columns_datetime, start_year,
                 aggregate_by_month, rows_bound>>

NextPlot ==
  \/ PlotMissingRate
  \/ PlotTimeSeriesData
  \/ PlotTimeSeriesDataIterative
  \/ SensorGuard
  \/ SensorForAgg
  \/ SensorForShade

SpecPlot == InitPlot /\ [][NextPlot]_vars

(* ------------------------------ properties ---------------------------- *)
\* i (0-based) is the first position of the greatest / the least element of s.
IsFirstMaxIndex(s, i) ==
  /\ i \in 0..(Len(s) - 1)
  /\ \A j \in 0..(Len(s) - 1) : s[j + 1] =< s[i + 1]
  /\ \A j \in 0..(i - 1) : s[j + 1] < s[i + 1]
IsFirstMinIndex(s, i) ==
  /\ i \in 0..(Len(s) - 1)
  /\ \A j \in 0..(Len(s) - 1) : s[j + 1] >= s[i + 1]
  /\ \A j \in 0..(i - 1) : s[j + 1] > s[i + 1]

\* The square of the cross product of (last - first) and (point i - first):
\* the squared perpendicular distance of point i to the line through the first
\* and the last point, times the squared length of that segment.
SquaredCross(s, i) ==
  LET c == (Len(s) - 1) * (s[i + 1] - s[1]) - i * (s[Len(s)] - s[1])
  IN  c * c
\* i (0-based) is the first interior point of s farthest from that line.
IsElbowIndex(s, i) ==
  /\ i \in 1..(Len(s) - 2)
  /\ \A j \in 1..(Len(s) - 2) : SquaredCross(s, j) =< SquaredCross(s, i)
  /\ \A j \in 1..(i - 1) : SquaredCross(s, j) < SquaredCross(s, i)

KColumnOf(df) == {df[i].Number_of_Clusters : i \in 1..Len(df)}
StrictlyIncreasingK(df) ==
  \A i \in 1..(Len(df) - 1) : df[i].Number_of_Clusters < df[i + 1].Number_of_Clusters
MetricOf(ax) ==
  CASE ax = "ax1" -> "Silhouette_Score"
    [] ax = "ax2" -> "Distortion"
    [] ax = "ax3" -> "Davies_Bouldin"
    [] ax = "ax4" -> "Calinski_Harabasz"

\* C1: whenever plot_best_k has selected an optimum for a metric, the index
\* selected for silhouette and for calinski_harabasz is the first maximum of
\* that metric's scores, the index for davies_bouldin is the first minimum,
\* and the index for distortion is the elbow (the farthest interior point).
C1_RulePerMetric ==
  /\ "ax1" \in DOMAIN optimal_k_index =>
        IsFirstMaxIndex(ss_scores, optimal_k_index["ax1"])
  /\ "ax2" \in DOMAIN optimal_k_index =>
        IsElbowIndex(distortions, optimal_k_index["ax2"])
  /\ "ax3" \in DOMAIN optimal_k_index =>
        IsFirstMinIndex(db_scores, optimal_k_index["ax3"])
  /\ "ax4" \in DOMAIN optimal_k_index =>
        IsFirstMaxIndex(ch_scores, optimal_k_index["ax4"])

\* All four optima selected, the elbow of distortion being neither its
\* minimum nor its maximum, and the davies_bouldin optimum differing from the
\* silhouette optimum over the same scores.
C1_Witness ==
  /\ DOMAIN optimal_k_index = Axes
  /\ ~IsFirstMinIndex(distortions, optimal_k_index["ax2"])
  /\ ~IsFirstMaxIndex(distortions, optimal_k_index["ax2"])
  /\ db_scores = ss_scores
  /\ optimal_k_index["ax3"] # optimal_k_index["ax1"]

\* C4 (as claimed): the caller's table holds the same rows in the same order
\* throughout and after the call as when it was passed.
C4_TableUnchanged == df_scores = df_passed

\* C5 (as claimed): a table whose k values are not strictly increasing is
\* rejected at entry: past the entry the call has raised, with no selection
\* made, nothing drawn and nothing written.
C5_RejectsUnorderedK ==
  (fn = "plot_best_k" /\ ~StrictlyIncreasingK(df_passed) /\ pc # "entry") =>
     /\ pc = "raised"
     /\ DOMAIN optimal_k_index = {}
     /\ DOMAIN axes = {}
     /\ files = {}

\* C6: the image is written only after all four selections and drawings have
\* succeeded and no error was raised; once the call has raised, no image has
\* been written; a call that completes has written it.
C6_AllOrNothing ==
  /\ files # {} =>
       /\ err = "none"
       /\ DOMAIN optimal_k_index = Axes
       /\ DOMAIN axes = Axes
  /\ pc = "raised" => files = {}
  /\ (fn = "plot_best_k" /\ pc = "done") => files = {"evaluation_metrics_plot.png"}

\* The third selection has failed after the first two succeeded.
C6_Witness ==
  /\ pc = "raised"
  /\ err = "TypeError"
  /\ DOMAIN axes = {"ax1", "ax2"}

\* C7 (as claimed): on a table of at least 3 rows with strictly increasing k
\* (and numeric scores) the four calls all succeed, and each axes is
\* annotated with the k and the metric's score of the row selected for it.
C7_FourPairs ==
  (/\ fn = "plot_best_k"
   /\ Len(df_passed) >= 3
   /\ StrictlyIncreasingK(df_passed)
   /\ object_cols = {}
   /\ pc \in {"savefig", "done", "raised"}) =>
     /\ DOMAIN axes = Axes
     /\ \A a \in Axes :
          /\ axes[a].annotation[1] \in KColumnOf(df_passed)
          /\ axes[a].annotation =
               <<df_scores[optimal_k_index[a] + 1].Number_of_Clusters,
                 df_scores[optimal_k_index[a] + 1][MetricOf(a)]>>

\* C10 (as claimed): on a non-empty table with strictly increasing k, the x
\* positions min_x..max_x are as many as the scores, the i-th of them is the
\* k of the i-th row, and every annotated optimum is a point of its curve.
C10_XPositionsAreK ==
  (/\ fn = "plot_best_k"
   /\ Len(df_passed) > 0
   /\ StrictlyIncreasingK(df_passed)
   /\ pc # "entry") =>
     /\ RangeLen(min_x[1], max_x[1]) = Len(ss_scores)
     /\ \A i \in 1..Len(df_scores) :
          PyRange(min_x[1], max_x[1])[i] = df_scores[i].Number_of_Clusters
     /\ \A a \in DOMAIN axes :
          \E i \in 1..Len(axes[a].line_x) :
             /\ axes[a].line_x[i] = axes[a].annotation[1]
             /\ axes[a].line_y[i] = axes[a].annotation[2]

\* C2: on a non-empty list the extremum selection returns the first index of
\* the maximum (is_higher_better) or of the minimum (not is_higher_better).
C2_FirstExtremum ==
  (fn = "plot_subplot" /\ ret # <<>> /\ ~arg_elbow /\ Len(arg_scores) > 0) =>
     /\ ret[1].error = "none"
     /\ arg_higher => IsFirstMaxIndex(arg_scores, ret[1].index)
     /\ ~arg_higher => IsFirstMinIndex(arg_scores, ret[1].index)

\* The maximum of [3, 5, 5, 2] is selected at index 1, its first occurrence.
C2_Witness ==
  /\ ret # <<>>
  /\ ~arg_elbow
  /\ arg_higher
  /\ arg_scores = <<3, 5, 5, 2>>
  /\ ret[1].index = 1

\* C3: on a list of at least 3 scores the elbow selection returns the first
\* interior index farthest from the line through the end points; on
\* [10, 9, 8, 2, 1] that is index 2.
C3_ElbowInterior ==
  (fn = "plot_subplot" /\ ret # <<>> /\ arg_elbow /\ Len(arg_scores) >= 3) =>
     /\ ret[1].error = "none"
     /\ IsElbowIndex(arg_scores, ret[1].index)
     /\ arg_scores = <<10, 9, 8, 2, 1>> => ret[1].index = 2

C3_Witness ==
  /\ ret # <<>>
  /\ arg_elbow
  /\ arg_scores = <<10, 9, 8, 2, 1>>
  /\ ret[1].index = 2

\* C8 (as claimed): the extremum selection on an empty list fails with
\* EmptyInputError.
C8_EmptyInputError ==
  (fn = "plot_subplot" /\ ret # <<>> /\ ~arg_elbow /\ Len(arg_scores) = 0) =>
     ret[1].error = "EmptyInputError"

\* C8 (amended): the extremum selection on an empty list fails with the
\* ValueError of max / min, for both values of is_higher_better, and returns
\* no index.
C8_EmptyRaisesValueError ==
  (fn = "plot_subplot" /\ ret # <<>> /\ ~arg_elbow /\ Len(arg_scores) = 0) =>
     /\ ret[1] = Raise("ValueError")
     /\ err = "ValueError"
     /\ pc = "raised"

\* The selection of a minimum has been applied to the empty list.
C8_Witness ==
  /\ ret # <<>>
  /\ ~arg_elbow
  /\ ~arg_higher
  /\ arg_scores = <<>>
  /\ err = "ValueError"

\* C9 (as claimed): each of the four plotting functions called with rewrite
\* false and an existing save_path performs no plotting step, writes no file
\* and raises no error, and has only reported the existing path when it returns.
C9_NoRewriteNoEffect ==
  (fn \in PlotFns /\ rewrite = FALSE /\ save_path_exists) =>
     /\ ~plotted
     /\ files = {}
     /\ err = "none"
     /\ pc = "done" => printed = <<"exists and will not be updated">>

====
